---- MODULE Spec2Model ----
(***************************************************************************)
(* The LEG virtual CPU of src/leg.py: a register file, a program array, a  *)
(* jump flag, and tick(), one fetch-execute-advance cycle per call.         *)
(*                                                                         *)
(* Every program slot and every register value is a tagged value           *)
(* [enum, value]: a member of the Enum class Opcodes, a member of the Enum *)
(* class Addresses, or a plain Python int.  Enum (not IntEnum) members     *)
(* compare by identity and hash by name, so Opcodes.ADD (0x00),            *)
(* Addresses.REG0 (0x00) and the int 0 are three different values.         *)
(***************************************************************************)
EXTENDS Integers, Sequences, FiniteSets

VARIABLES
    program,    \* self.program
    ram,        \* self.ram
    stack,      \* self.stack
    registers,  \* self.registers
    jumping,    \* self._jumping
    i,          \* the driver's loop counter
    fetched,    \* tick's locals (opcode, arg1, arg2, arg3) of the last tick
    before,     \* self.registers when the last tick started
    applied,    \* self.registers when the last tick's _apply returned
    raised      \* the exception the last tick raised, or "none"

vars == <<program, ram, stack, registers, jumping, i, fetched, before, applied, raised>>

--------------------------------------------------------------------------
(* Values *)

Member(e, v) == [enum |-> e, value |-> v]

Raw(n) == Member("int", n)

IsInt(x) == x.enum = "int"

ADD  == Member("Opcodes", 0)
ADDI == Member("Opcodes", 128)
AND  == Member("Opcodes", 1)
ANDI == Member("Opcodes", 129)
IFEQ == Member("Opcodes", 32)
IFNE == Member("Opcodes", 33)
LOAD == Member("Opcodes", 48)
SAVE == Member("Opcodes", 49)

Opcodes == {ADD, ADDI, AND, ANDI, IFEQ, IFNE, LOAD, SAVE}

REG0 == Member("Addresses", 0)
REG1 == Member("Addresses", 1)
REG2 == Member("Addresses", 2)
REG3 == Member("Addresses", 3)
REG4 == Member("Addresses", 4)
REG5 == Member("Addresses", 5)
PC   == Member("Addresses", 6)
IO   == Member("Addresses", 7)

Addresses == {REG0, REG1, REG2, REG3, REG4, REG5, PC, IO}

\* The modulus of _op_add, _op_addi and of tick's advance.
Modulus == 255

\* The length of self.ram and of self.stack.
MemSize == 255

\* The PC advance of a tick that did not jump.
Step == 4

\* Python's a & b on non-negative ints.
RECURSIVE BitAnd(_, _)
BitAnd(a, b) ==
    IF a = 0 \/ b = 0 THEN 0
    ELSE (a % 2) * (b % 2) + 2 * BitAnd(a \div 2, b \div 2)

--------------------------------------------------------------------------
(* Construction *)

InitRegisters ==
    [r \in {REG0, REG1, REG2, REG3, REG4, REG5, PC} |-> Raw(0)]

\* The keys of the dispatch table self._opcodes.
Handled == {ADD, ADDI, AND, ANDI, IFEQ}

NoFetch == <<>>

--------------------------------------------------------------------------
(* Helpers: _get and _set *)

\* Mutant of get: an operand outside the register file reads as itself, the
\* way an immediate does.
get_immediate(regs, arg) ==
    IF arg \in DOMAIN regs THEN regs[arg] ELSE arg

\* Mutant of get: IO reads a byte of the input stream, here the byte 1.
get_io_input(regs, arg) ==
    IF arg \in DOMAIN regs THEN regs[arg]
    ELSE IF arg = IO THEN Raw(1)
    ELSE Raw(0)

get(regs, arg) ==
    IF arg \in DOMAIN regs THEN regs[arg]
    ELSE IF arg = IO THEN Raw(0)
    ELSE Raw(0)

set(regs, arg, value) ==
    IF arg \in DOMAIN regs THEN [regs EXCEPT ![arg] = value]
    ELSE regs

--------------------------------------------------------------------------
(* ALU and jumps.  A handler takes the machine m = [registers, jumping,    *)
(* raised] and its three operands and returns the machine it leaves.       *)
(* Python's + and & raise TypeError unless both operands are ints.         *)

\* Mutant of op_add: the sum is reduced modulo 256.
op_add_mod256(m, arg1_reg, arg2_reg, res_reg) ==
    LET a == get(m.registers, arg1_reg)
        b == get(m.registers, arg2_reg)
    IN  IF IsInt(a) /\ IsInt(b)
        THEN [m EXCEPT !.registers =
                 set(@, res_reg, Raw((a.value + b.value) % 256))]
        ELSE [m EXCEPT !.raised = "TypeError"]

op_add(m, arg1_reg, arg2_reg, res_reg) ==
    LET a == get(m.registers, arg1_reg)
        b == get(m.registers, arg2_reg)
    IN  IF IsInt(a) /\ IsInt(b)
        THEN [m EXCEPT !.registers =
                 set(@, res_reg, Raw((a.value + b.value) % Modulus))]
        ELSE [m EXCEPT !.raised = "TypeError"]

\* Mutant of op_addi: the sum is reduced modulo 256.
op_addi_mod256(m, arg1_reg, arg2_im, res_reg) ==
    LET a == get(m.registers, arg1_reg)
        b == arg2_im
    IN  IF IsInt(a) /\ IsInt(b)
        THEN [m EXCEPT !.registers =
                 set(@, res_reg, Raw((a.value + b.value) % 256))]
        ELSE [m EXCEPT !.raised = "TypeError"]

\* Mutant of op_addi: a write to PC counts as a jump.
op_addi_jump(m, arg1_reg, arg2_im, res_reg) ==
    LET a == get(m.registers, arg1_reg)
        b == arg2_im
    IN  IF IsInt(a) /\ IsInt(b)
        THEN [m EXCEPT !.registers =
                 set(@, res_reg, Raw((a.value + b.value) % Modulus)),
                       !.jumping = (res_reg = PC)]
        ELSE [m EXCEPT !.raised = "TypeError"]

op_addi(m, arg1_reg, arg2_im, res_reg) ==
    LET a == get(m.registers, arg1_reg)
        b == arg2_im
    IN  IF IsInt(a) /\ IsInt(b)
        THEN [m EXCEPT !.registers =
                 set(@, res_reg, Raw((a.value + b.value) % Modulus))]
        ELSE [m EXCEPT !.raised = "TypeError"]

\* Mutant of op_and: the body of op_add, copied and not changed.
op_and_as_add(m, arg1_reg, arg2_reg, res_reg) ==
    op_add(m, arg1_reg, arg2_reg, res_reg)

op_and(m, arg1_reg, arg2_reg, res_reg) ==
    LET a == get(m.registers, arg1_reg)
        b == get(m.registers, arg2_reg)
    IN  IF IsInt(a) /\ IsInt(b)
        THEN [m EXCEPT !.registers =
                 set(@, res_reg, Raw(BitAnd(a.value, b.value)))]
        ELSE [m EXCEPT !.raised = "TypeError"]

op_andi(m, arg1_reg, arg2_im, res_reg) ==
    LET a == get(m.registers, arg1_reg)
        b == arg2_im
    IN  IF IsInt(a) /\ IsInt(b)
        THEN [m EXCEPT !.registers =
                 set(@, res_reg, Raw(BitAnd(a.value, b.value)))]
        ELSE [m EXCEPT !.raised = "TypeError"]

\* Mutant of op_ifeq: PC is set and the jump flag is not.
op_ifeq_noflag(m, arg1_reg, arg2_reg, jump_addr) ==
    LET a == get(m.registers, arg1_reg)
        b == get(m.registers, arg2_reg)
    IN  IF a = b
        THEN [m EXCEPT !.registers = [@ EXCEPT ![PC] = jump_addr]]
        ELSE m

\* Mutant of op_ifeq: the test of IFNE.
op_ifeq_ne(m, arg1_reg, arg2_reg, jump_addr) ==
    LET a == get(m.registers, arg1_reg)
        b == get(m.registers, arg2_reg)
    IN  IF a # b
        THEN [m EXCEPT !.registers = [@ EXCEPT ![PC] = jump_addr],
                       !.jumping = TRUE]
        ELSE m

op_ifeq(m, arg1_reg, arg2_reg, jump_addr) ==
    LET a == get(m.registers, arg1_reg)
        b == get(m.registers, arg2_reg)
    IN  IF a = b
        THEN [m EXCEPT !.registers = [@ EXCEPT ![PC] = jump_addr],
                       !.jumping = TRUE]
        ELSE m

--------------------------------------------------------------------------
(* Clock *)

\* _read_program: the four slots at PC, or the exception the list raises.
\* self.program[k] is program[k + 1] here.
read_program(prog, regs) ==
    LET pc == regs[PC]
    IN  IF ~IsInt(pc)
        THEN [raised |-> "TypeError", fetched |-> NoFetch]
        ELSE IF pc.value + 3 >= Len(prog)
        THEN [raised |-> "IndexError", fetched |-> NoFetch]
        ELSE [raised |-> "none",
              fetched |-> <<prog[pc.value + 1], prog[pc.value + 2],
                            prog[pc.value + 3], prog[pc.value + 4]>>]

\* The call op(arg1, arg2, arg3) of the handler the table holds for opcode.
dispatch(m, opcode, arg1, arg2, arg3) ==
    CASE opcode = ADD  -> op_add(m, arg1, arg2, arg3)
      [] opcode = ADDI -> op_addi(m, arg1, arg2, arg3)
      [] opcode = AND  -> op_and(m, arg1, arg2, arg3)
      [] opcode = ANDI -> op_andi(m, arg1, arg2, arg3)
      [] opcode = IFEQ -> op_ifeq(m, arg1, arg2, arg3)

\* Mutant of apply: the table is indexed without the membership test, and
\* an opcode it does not hold raises KeyError.
apply_keyerror(m, opcode, arg1, arg2, arg3) ==
    IF opcode \in Handled
    THEN dispatch(m, opcode, arg1, arg2, arg3)
    ELSE [m EXCEPT !.raised = "KeyError"]

apply(m, opcode, arg1, arg2, arg3) ==
    IF opcode \in Handled
    THEN dispatch(m, opcode, arg1, arg2, arg3)
    ELSE m

\* Mutant of advance: the jump flag is consulted and never reset.
advance_noreset(m) ==
    IF ~m.jumping
    THEN IF IsInt(m.registers[PC])
         THEN [m EXCEPT !.registers =
                  [@ EXCEPT ![PC] = Raw((m.registers[PC].value + Step) % Modulus)]]
         ELSE [m EXCEPT !.raised = "TypeError"]
    ELSE m

\* The end of tick: the sequential advance, or the reset of the jump flag.
advance(m) ==
    IF ~m.jumping
    THEN IF IsInt(m.registers[PC])
         THEN [m EXCEPT !.registers =
                  [@ EXCEPT ![PC] = Raw((m.registers[PC].value + Step) % Modulus)]]
         ELSE [m EXCEPT !.raised = "TypeError"]
    ELSE [m EXCEPT !.jumping = FALSE]

\* Mutant of tick: a jump is a call, which pushes its return address on the
\* stack.
tick_pushes ==
    LET f == read_program(program, registers)
        m0 == [registers |-> registers, jumping |-> jumping, raised |-> "none"]
        m1 == IF f.raised = "none"
              THEN apply(m0, f.fetched[1], f.fetched[2], f.fetched[3], f.fetched[4])
              ELSE [m0 EXCEPT !.raised = f.raised]
        m2 == IF m1.raised = "none" THEN advance(m1) ELSE m1
    IN  /\ fetched' = f.fetched
        /\ before' = registers
        /\ applied' = m1.registers
        /\ registers' = m2.registers
        /\ jumping' = m2.jumping
        /\ raised' = m2.raised
        /\ stack' = IF m1.jumping
                    THEN [stack EXCEPT ![0] = registers[PC].value + Step]
                    ELSE stack
        /\ UNCHANGED <<program, ram>>

\* tick(): an exception ends the tick where it is raised and leaves the
\* machine as it then is.
tick ==
    LET f == read_program(program, registers)
        m0 == [registers |-> registers, jumping |-> jumping, raised |-> "none"]
        m1 == IF f.raised = "none"
              THEN apply(m0, f.fetched[1], f.fetched[2], f.fetched[3], f.fetched[4])
              ELSE [m0 EXCEPT !.raised = f.raised]
        m2 == IF m1.raised = "none" THEN advance(m1) ELSE m1
    IN  /\ fetched' = f.fetched
        /\ before' = registers
        /\ applied' = m1.registers
        /\ registers' = m2.registers
        /\ jumping' = m2.jumping
        /\ raised' = m2.raised
        /\ UNCHANGED <<program, ram, stack>>

--------------------------------------------------------------------------
(* Programs and the driver *)

\* The driver's number of ticks.
MaxTicks == 4

\* The number of zero slots after the last instruction of a program.
PadSlots == 4

Zeros(n) == [k \in 1..n |-> Raw(0)]

OpcodeSlots == Opcodes \cup {Raw(0), REG0}

OperandSlots ==
    {REG0, REG1, REG2, PC, IO, Raw(0), Raw(5), Raw(10), Raw(250), Raw(255)}

Instructions ==
    {<<o, x, y, z>> : o \in OpcodeSlots, x \in OperandSlots,
                      y \in OperandSlots, z \in OperandSlots}

Preludes ==
    { <<>>,
      <<ADDI, REG0, Raw(250), REG0>>,
      <<ADDI, REG0, Raw(170), REG0, ADDI, REG1, Raw(15), REG1>> }

Programs ==
    {p \o ins \o Zeros(PadSlots) : p \in Preludes, ins \in Instructions}

Construct(prog) ==
    /\ program = prog
    /\ ram = [k \in 0..(MemSize - 1) |-> 0]
    /\ stack = [k \in 0..(MemSize - 1) |-> 0]
    /\ registers = InitRegisters
    /\ jumping = FALSE
    /\ i = 0
    /\ fetched = NoFetch
    /\ before = InitRegisters
    /\ applied = InitRegisters
    /\ raised = "none"

Init == \E prog \in Programs : Construct(prog)

\* for i in range(n): leg.tick() -- an exception ends the loop.
Run ==
    /\ raised = "none"
    /\ i < MaxTicks
    /\ tick
    /\ i' = i + 1

Next == Run

Spec == Init /\ [][Next]_vars

--------------------------------------------------------------------------
(* Long programs: one instruction and zero slots up to the address space   *)
(* of PC (Modulus slots), or up to the shortest length at which every PC   *)
(* value can fetch (Modulus + 3 slots).                                    *)

\* The driver's number of ticks over a long program.
LongTicks == 256

LongHeads ==
    { <<Raw(0), Raw(0), Raw(0), Raw(0)>>,
      <<IFEQ, REG0, REG0, Raw(252)>>,
      <<IFEQ, REG0, REG0, Raw(248)>>,
      <<ADDI, REG0, Raw(248), PC>>,
      <<ADDI, REG0, Raw(5), REG0>>,
      <<ADDI, REG0, REG1, REG0>> }

LongPrograms ==
    {h \o Zeros(n - 4) : h \in LongHeads, n \in {Modulus, Modulus + 3}}

InitLong == \E prog \in LongPrograms : Construct(prog)

RunLong ==
    /\ raised = "none"
    /\ i < LongTicks
    /\ tick
    /\ i' = i + 1

NextLong == RunLong

SpecLong == InitLong /\ [][NextLong]_vars

--------------------------------------------------------------------------
(* The demonstration program of __main__ *)

\* The driver's number of ticks over the demonstration program.
DemoTicks == 120

\* 0x10101010, the immediate of the first instruction.
DemoImmediate == 269488144

DemoProgram ==
    <<ADDI, REG0, Raw(DemoImmediate), REG0,
      ADDI, REG1, Raw(10), REG1,
      AND, REG0, REG1, REG2,
      IFEQ, REG2, REG2, Raw(0)>> \o Zeros(60)

InitDemo == Construct(DemoProgram)

RunDemo ==
    /\ raised = "none"
    /\ i < DemoTicks
    /\ tick
    /\ i' = i + 1

NextDemo == RunDemo

SpecDemo == InitDemo /\ [][NextDemo]_vars

--------------------------------------------------------------------------
(* The last tick, as the state records it *)

RegisterKeys == DOMAIN InitRegisters

General == RegisterKeys \ {PC}

Alu == {ADD, ADDI, AND, ANDI}

\* The last tick fetched an instruction.
Executed == i > 0 /\ fetched # NoFetch

\* The last tick ran to its end.
Completed == Executed /\ raised = "none"

opcode == fetched[1]
arg1 == fetched[2]
arg2 == fetched[3]
arg3 == fetched[4]

\* Bit k of the non-negative integer n.
Bit(n, k) == (n \div (2 ^ k)) % 2

\* No general-purpose register differs from its value when the tick started.
GeneralUnchanged == \A r \in General : registers[r] = before[r]

\* The last tick left PC at target and did not advance from there.
jumpedTo(target) == registers[PC] = target /\ applied[PC] = target

\* PC is where the sequential advance puts it.
Advanced == registers[PC] = Raw((before[PC].value + 4) % 255)

--------------------------------------------------------------------------
(* Claims *)

\* C1: a register-register ADD (src1, src2 and dst all in the register file,
\* dst possibly one of the sources) completes; the value its handler writes
\* to dst is (value(src1) + value(src2)) mod 255 of the values held when the
\* instruction started, dst holds it when the handler returns, and a dst
\* other than PC still holds it when the tick ends.
C1_AddRegisterRegister ==
    (Executed /\ opcode = ADD /\ {arg1, arg2, arg3} \subseteq RegisterKeys)
    => LET res == Raw((before[arg1].value + before[arg2].value) % 255)
       IN  /\ raised = "none"
           /\ applied[arg3] = res
           /\ arg3 # PC => registers[arg3] = res

\* An ADD of REG0 = 250 to itself, into REG0, has left 500 mod 255 = 245.
C1_Witness ==
    /\ Executed
    /\ fetched = <<ADD, REG0, REG0, REG0>>
    /\ before[REG0] = Raw(250)
    /\ registers[REG0] = Raw(245)

\* C2: an ADDI (src, imm, dst) with src and dst in the register file and an
\* integer immediate writes (value(src) + imm) mod 255 to dst; REG0 = 250
\* with immediate 10 leaves REG0 = 5; and (ADDI, REG0, 5, REG0) at PC 0 of
\* the all-zero machine leaves REG0 = 5 and PC = 4.
C2_AddImmediate ==
    /\ (Executed /\ opcode = ADDI /\ {arg1, arg3} \subseteq RegisterKeys
                 /\ IsInt(arg2))
       => LET res == Raw((before[arg1].value + arg2.value) % 255)
          IN  /\ raised = "none"
              /\ applied[arg3] = res
              /\ arg3 # PC => registers[arg3] = res
    /\ (Executed /\ fetched = <<ADDI, REG0, Raw(10), REG0>>
                 /\ before[REG0] = Raw(250))
       => registers[REG0] = Raw(5)
    /\ (Executed /\ fetched = <<ADDI, REG0, Raw(5), REG0>>
                 /\ before = InitRegisters)
       => registers[REG0] = Raw(5) /\ registers[PC] = Raw(4)

\* REG0 = 250 plus the immediate 10 has wrapped to 5.
C2_Witness ==
    /\ Executed
    /\ fetched = <<ADDI, REG0, Raw(10), REG0>>
    /\ before[REG0] = Raw(250)
    /\ registers[REG0] = Raw(5)

\* C3: the value an AND writes is value(src1) & value(src2) and the value an
\* ANDI writes is value(src) & imm, bit by bit: a bit of the result is set
\* exactly when it is set in both operands, so the result has no other bit
\* and is stored as it is; REG0 = 170 and REG1 = 15 give REG2 = 10.
C3_And ==
    /\ (Executed /\ opcode \in {AND, ANDI} /\ {arg1, arg3} \subseteq RegisterKeys
                 /\ (IF opcode = AND THEN arg2 \in RegisterKeys ELSE IsInt(arg2)))
       => LET a == before[arg1].value
              b == IF opcode = AND THEN before[arg2].value ELSE arg2.value
          IN  /\ raised = "none"
              /\ IsInt(applied[arg3])
              /\ applied[arg3].value \in 0..255
              /\ \A k \in 0..7 :
                    Bit(applied[arg3].value, k) = Bit(a, k) * Bit(b, k)
              /\ arg3 # PC => registers[arg3] = applied[arg3]
    /\ (Executed /\ fetched = <<AND, REG0, REG1, REG2>>
                 /\ before[REG0] = Raw(170) /\ before[REG1] = Raw(15))
       => registers[REG2] = Raw(10)

\* AND of REG0 = 170 and REG1 = 15 has left 10 in REG2.
C3_Witness ==
    /\ Executed
    /\ fetched = <<AND, REG0, REG1, REG2>>
    /\ before[REG0] = Raw(170)
    /\ before[REG1] = Raw(15)
    /\ registers[REG2] = Raw(10)

\* C4: a tick that executes (IFEQ, A, B, target) completes; if the values of
\* A and B were equal, PC is the literal target, with no +4 applied to it;
\* otherwise PC is (PC_before + 4) mod 255.  Either way no general-purpose
\* register changes.
C4_Ifeq ==
    (Executed /\ opcode = IFEQ)
    => /\ raised = "none"
       /\ IF get(before, arg1) = get(before, arg2)
          THEN registers[PC] = arg3
          ELSE Advanced
       /\ GeneralUnchanged

\* An IFEQ at PC 8 on REG0 = REG0 = 170 has jumped to 0, not to 12 or 4.
C4_Witness ==
    /\ Executed
    /\ fetched = <<IFEQ, REG0, REG0, Raw(0)>>
    /\ before[REG0] = Raw(170)
    /\ before[PC] = Raw(8)
    /\ registers[PC] = Raw(0)

\* C5: a tick on an instruction whose opcode slot has no handler (IFNE, LOAD,
\* SAVE, or a value that is no opcode) raises nothing, leaves REG0-REG5
\* unchanged and leaves PC = (PC_before + 4) mod 255.
C5_NoHandlerNoOp ==
    (Executed /\ opcode \notin Handled)
    => /\ raised = "none"
       /\ GeneralUnchanged
       /\ Advanced

\* A LOAD at PC 4, with REG0 = 250, has only advanced PC to 8.
C5_Witness ==
    /\ Executed
    /\ opcode = LOAD
    /\ before[REG0] = Raw(250)
    /\ registers[REG0] = Raw(250)
    /\ before[PC] = Raw(4)
    /\ registers[PC] = Raw(8)

\* C6: an operand outside the register file (IO, or any other value) reads
\* as 0 and a write to it changes no register, and neither raises: an ADD or
\* AND computes with 0 for such a source, an IFEQ compares 0 for it, and an
\* ALU instruction with such a destination leaves every general-purpose
\* register unchanged.
C6_OutsideRegisterFile ==
    /\ (Executed /\ opcode \in {ADD, AND})
       => raised = "none"
    /\ (Executed /\ opcode = ADD /\ arg1 \notin RegisterKeys
                 /\ arg3 \in RegisterKeys)
       => applied[arg3] =
             IF arg2 \in RegisterKeys
             THEN Raw(before[arg2].value % 255) ELSE Raw(0)
    /\ (Executed /\ opcode = ADD /\ arg2 \notin RegisterKeys
                 /\ arg1 \in RegisterKeys /\ arg3 \in RegisterKeys)
       => applied[arg3] = Raw(before[arg1].value % 255)
    /\ (Executed /\ opcode = AND /\ arg3 \in RegisterKeys
                 /\ (arg1 \notin RegisterKeys \/ arg2 \notin RegisterKeys))
       => applied[arg3] = Raw(0)
    /\ (Executed /\ opcode = IFEQ /\ arg1 \notin RegisterKeys
                 /\ arg2 \in RegisterKeys)
       => (jumpedTo(arg3) <=> before[arg2] = Raw(0))
    /\ (Executed /\ opcode \in Alu /\ arg3 \notin RegisterKeys)
       => /\ applied = before
          /\ GeneralUnchanged

\* An ADD of IO and REG0 = 250 into REG1 has left 0 + 250 in REG1.
C6_Witness ==
    /\ Executed
    /\ fetched = <<ADD, IO, REG0, REG1>>
    /\ before[REG0] = Raw(250)
    /\ registers[REG1] = Raw(250)

\* C7: a tick that starts with the four slots PC..PC+3 in the program
\* completes without raising, whatever the slots hold (an address code in an
\* immediate or jump-target position included), and leaves a PC the next
\* tick can fetch with.
C7_Total ==
    (i > 0 /\ IsInt(before[PC]) /\ before[PC].value + 3 < Len(program))
    => /\ raised = "none"
       /\ IsInt(registers[PC])

\* C8: every integer held in the register file (REG0-REG5 and PC) is in
\* [0, 255): 255 is never stored, not in PC after a taken IFEQ either.
C8_ValuesBelow255 ==
    \A r \in RegisterKeys :
        IsInt(registers[r]) => registers[r].value \in 0..254

\* C9: a tick at PC = 252 of a program of length 255 completes and leaves
\* PC = (252 + 4) mod 255 = 1.
C9_WrapAt252 ==
    (i > 0 /\ Len(program) = 255 /\ before[PC] = Raw(252))
    => /\ raised = "none"
       /\ registers[PC] = Raw(1)

\* C10: in a tick that completes, either the handler wrote PC and PC is
\* exactly the value the handler set, or no handler wrote PC and PC is
\* (PC_before + 4) mod 255; an ADD, ADDI, AND or ANDI with destination PC
\* included.
C10_JumpOrAdvance ==
    Completed
    => IF \/ opcode \in Alu /\ arg3 = PC
          \/ opcode = IFEQ /\ get(before, arg1) = get(before, arg2)
       THEN registers[PC] = applied[PC]
       ELSE Advanced

\* C11: the jump flag is false at every tick boundary: in the initial state
\* and after every tick, taken jump or not; and a tick whose own instruction
\* neither jumps nor writes PC advances PC by 4, whatever the tick before it
\* did.
C11_FlagFalseBetweenTicks ==
    /\ jumping = FALSE
    /\ (Completed /\ ~(opcode \in Alu /\ arg3 = PC)
                  /\ ~(opcode = IFEQ /\ get(before, arg1) = get(before, arg2)))
       => Advanced

\* After the IFEQ at PC 8 jumped to 0, the ADDI at 0 ran a second time
\* (REG0 was 170 already) and the tick advanced PC to 4, the flag false.
C11_Witness ==
    /\ Completed
    /\ fetched = <<ADDI, REG0, Raw(170), REG0>>
    /\ before[REG0] = Raw(170)
    /\ before[PC] = Raw(0)
    /\ registers[PC] = Raw(4)
    /\ jumping = FALSE

\* C12: a tick that executes ADD, ADDI, AND or ANDI with a destination other
\* than PC leaves PC = (PC_before + 4) mod 255 and changes no register
\* besides the destination and PC.
C12_AluFrame ==
    (Executed /\ opcode \in Alu /\ arg3 # PC)
    => /\ \A r \in General \ {arg3} : registers[r] = before[r]
       /\ Advanced

\* C13: program, ram and stack are what the constructor left: ram and stack
\* 255 zeros each, and no tick changes any of the three.
C13_MemoryInert ==
    /\ [](/\ ram = [k \in 0..254 |-> 0]
          /\ stack = [k \in 0..254 |-> 0])
    /\ [][program' = program /\ ram' = ram /\ stack' = stack]_vars

\* A SAVE has run after the ADDI before it, and ram and stack are still
\* all zero.
C13_Witness ==
    /\ Completed
    /\ opcode = SAVE
    /\ i >= 2
    /\ \A k \in 0..254 : ram[k] = 0 /\ stack[k] = 0

\* C14: the value of every opcode a program holds lies in the band the class
\* docstring gives it: ADD, ADDI, AND and ANDI in 0..31, IFEQ and IFNE in
\* 32..48, LOAD = 49 and SAVE = 50; and no two opcodes have the same value.
C14_OpcodeBands ==
    /\ \A k \in 1..Len(program) :
          /\ program[k] \in {ADD, ADDI, AND, ANDI} => program[k].value \in 0..31
          /\ program[k] \in {IFEQ, IFNE} => program[k].value \in 32..48
          /\ program[k] = LOAD => program[k].value = 49
          /\ program[k] = SAVE => program[k].value = 50
    /\ Cardinality({o.value : o \in Opcodes}) = Cardinality(Opcodes)

\* C15: over the demonstration program no tick raises, PC is 0, 4, 8 or 12
\* at every tick boundary, in that cyclic order (the IFEQ at 12 is taken on
\* every pass), PC is never 16 and no tick fetches at an address past 12.
C15_DemoLoop ==
    /\ raised = "none"
    /\ registers[PC] \in {Raw(0), Raw(4), Raw(8), Raw(12)}
    /\ registers[PC] = Raw((4 * i) % 16)
    /\ i > 0 => /\ Executed
                /\ before[PC].value <= 12
                /\ registers[PC] = Raw((before[PC].value + 4) % 16)
    /\ (Executed /\ before[PC] = Raw(12))
       => fetched = <<IFEQ, REG2, REG2, Raw(0)>> /\ jumpedTo(Raw(0))

\* The IFEQ at 12 has jumped to 0 on the second pass.
C15_Witness ==
    /\ Executed
    /\ opcode = IFEQ
    /\ before[PC] = Raw(12)
    /\ registers[PC] = Raw(0)
    /\ i = 8

\* C16: an IFEQ whose two comparison operands are both outside the register
\* file (IO or a plain integer) always jumps: it raises nothing and PC is
\* the target slot after the tick, whatever the registers hold.
C16_IfeqOutsideJumps ==
    (Executed /\ opcode = IFEQ /\ arg1 \notin RegisterKeys
              /\ arg2 \notin RegisterKeys)
    => /\ raised = "none"
       /\ jumpedTo(arg3)

\* IFEQ on IO and the integer 250 has jumped to 5 while REG0 held 250.
C16_Witness ==
    /\ Executed
    /\ fetched = <<IFEQ, IO, Raw(250), Raw(5)>>
    /\ before[REG0] = Raw(250)
    /\ before[PC] = Raw(4)
    /\ registers[PC] = Raw(5)

\* C17: a completed ADD, ADDI, AND or ANDI with destination PC leaves the
\* jump flag unset and PC = (result + 4) mod 255, result being the value
\* its handler wrote to PC: the sum mod 255 for ADD and ADDI, the bitwise
\* AND for AND and ANDI, of the operand values the instruction started with.
C17_AluToPcAdvances ==
    (Completed /\ opcode \in Alu /\ arg3 = PC)
    => LET a == get(before, arg1).value
           b == IF opcode \in {ADD, AND} THEN get(before, arg2).value
                ELSE arg2.value
           result == IF opcode \in {ADD, ADDI} THEN (a + b) % 255
                     ELSE applied[PC].value
       IN  /\ jumping = FALSE
           /\ applied[PC] = Raw(result)
           /\ opcode \in {AND, ANDI}
              => \A k \in 0..7 : Bit(result, k) = Bit(a, k) * Bit(b, k)
           /\ registers[PC] = Raw((result + 4) % 255)

\* (ADDI, REG0, 5, PC) at PC 0 of the zero machine has left PC = 9.
C17_Witness ==
    /\ Completed
    /\ fetched = <<ADDI, REG0, Raw(5), PC>>
    /\ before = InitRegisters
    /\ applied[PC] = Raw(5)
    /\ registers[PC] = Raw(9)

\* No slot of the program holds IFEQ or PC: whatever a tick fetches, and at
\* whatever alignment, its instruction neither jumps nor writes PC.
NoJumpNoPcWrite ==
    \A k \in 1..Len(program) : program[k] # IFEQ /\ program[k] # PC

\* C18: over a program of at least 258 slots none of whose instructions
\* jumps or writes PC, PC after k ticks is (4 * k) mod 255: it is 1 after 64
\* ticks, after which the fetches are at addresses that are no multiples of
\* 4, it is 0 again after 255 ticks and not before, and the first 255 ticks
\* leave every value in 0..254.
C18_PcCycle ==
    (Len(program) >= 258 /\ NoJumpNoPcWrite)
    => /\ registers[PC] = Raw((4 * i) % 255)
       /\ i = 64 => registers[PC] = Raw(1)
       /\ i \in 1..254 => registers[PC] # Raw(0)
       /\ i = 255 => registers[PC] = Raw(0)
       /\ i \in 66..128 => before[PC].value % 4 # 0
       /\ {(4 * k) % 255 : k \in 0..254} = 0..254

====
